---- MODULE Spec2Model ----
(***************************************************************************)
(* Model of src/app.py: the Flask service that scrapes a URL into an       *)
(* in-memory context keyed by a generated api key, records the key in the  *)
(* user's row, and answers /chat by sending the stored context to a remote *)
(* completion capability, behind a per-address request limiter.            *)
(*                                                                         *)
(* Time is not measured: the end of a limiter window is the action         *)
(* window_rollover, which may happen to any counter at any moment.         *)
(* The default tiers (200 per day, 50 per hour) guard the routes without   *)
(* a decorator; their counters are not part of the state.  The decorated   *)
(* limit of /process_url and /chat replaces them there, so the limiter     *)
(* keeps no hourly or daily counter for the two endpoints; the requests of *)
(* an hour are a history variable.                                         *)
(*                                                                         *)
(* The specifications share the handlers:                                  *)
(*   Spec          one browser that sends an endpoint one request per      *)
(*                 window, with every input and every failure of the       *)
(*                 collaborators;                                          *)
(*   SpecLimiter   one browser of one user that sends up to MaxHits hits   *)
(*                 per window, with the inputs the limiter can tell apart; *)
(*   SpecDefaults  one browser that stays within the limit of a minute,    *)
(*                 followed for up to MaxHourHits requests in an hour;     *)
(*   SpecRace      two browsers whose /process_url requests interleave     *)
(*                 between the load of the key list and the commit;        *)
(*   SpecClients   two browsers that send both endpoints up to MaxHits     *)
(*                 hits per window.                                        *)
(***************************************************************************)
EXTENDS Integers, Sequences, FiniteSets, TLC

\* Python's None: an absent JSON field, an absent session entry.
None == "None"

(* ------------------------------ bounds -------------------------------- *)
\* number of uuid4 draws followed (keys issued over all process lifetimes)
MaxKeys == 2
\* SpecLimiter: hits on one limiter counter followed inside one window
MaxHits == 6
\* SpecDefaults: requests to one endpoint followed inside one hour
MaxHourHits == 51

(* --------------------------- program constants ------------------------ *)
\* @limiter.limit("5 per minute")
PerMinuteLimit == 5
\* default_limits=["200 per day", "50 per hour"]
PerHourLimit == 50

Sentinel == "No context available for this API key."
SystemPrefix == "You are a chatbot trained on the following website content: "

(* ------------------------------ universe ------------------------------ *)
\* a client is one browser: one remote address and one cookie jar
Clients == {"10.0.0.1", "10.0.0.2"}
\* the two decorated endpoints
LimitedEndpoints == {"process_url", "chat"}

\* werkzeug.security, the salt left out
generate_password_hash(password) == "pbkdf2:" \o password
check_password_hash(pwhash, password) == pwhash = generate_password_hash(password)

\* rows of the User table as register() creates them (api_keys is a variable)
UserRows == <<[id |-> 1, email |-> "a@example.com",
               password |-> generate_password_hash("pw-a")],
              [id |-> 2, email |-> "b@example.com",
               password |-> generate_password_hash("pw-b")]>>
UserIds == {UserRows[i].id : i \in 1..Len(UserRows)}

\* User.query.filter_by(email=email).first()
filter_by_email(email) ==
    IF \E i \in 1..Len(UserRows) : UserRows[i].email = email
    THEN UserRows[CHOOSE i \in 1..Len(UserRows) : UserRows[i].email = email]
    ELSE [id |-> 0, email |-> None, password |-> None]

\* inputs of the requests
Emails == {"a@example.com", "b@example.com"}
Passwords == {"pw-a", "pw-b"}
UrlInputs == {None, "", "http://example.com/a"}

\* what requests.get(url) can do: a response of any status, or an exception
FetchOutcomes ==
    { [kind |-> "response", status |-> 200, paragraphs |-> <<"Hello.", "World.">>],
      [kind |-> "response", status |-> 404, paragraphs |-> <<"Not Found">>],
      [kind |-> "ConnectionError", status |-> 0, paragraphs |-> << >>] }

\* what client.chat.completions.create can do
CompletionOutcomes ==
    { [kind |-> "response", content |-> "Hi there"],
      [kind |-> "RequestException", content |-> None],
      [kind |-> "APIError", content |-> None],
      [kind |-> "Exception", content |-> None] }

\* the page that is there and the reply of the capability, for the requests
\* that never reach the call or whose call works
Page == [kind |-> "response", status |-> 200, paragraphs |-> <<"Hello.", "World.">>]
Reply == [kind |-> "response", content |-> "Hi there"]

\* what the database can do on a load or a commit
DbOutcomes == {"ok", "OperationalError"}

(* ------------------------------ helpers ------------------------------- *)
RECURSIVE join(_, _)
\* sep.join(parts)
join(sep, parts) ==
    IF parts = << >> THEN ""
    ELSE IF Len(parts) = 1 THEN parts[1]
    ELSE parts[1] \o sep \o join(sep, Tail(parts))

\* BeautifulSoup + ' '.join([p.text for p in soup.find_all('p')])
extract_text(response) == join(" ", response.paragraphs)

\* f"user_{uuid.uuid4().hex}": the n-th draw of uuid4, never a value drawn before
uuid4_hex(n) == ToString(n)
\* a key that does not depend on the draw
new_api_key_constant(n) == "user_" \o uuid4_hex(0)
new_api_key(n) == "user_" \o uuid4_hex(n)

AllKeys == {new_api_key(n) : n \in 1..MaxKeys}
\* the bodies of the /chat requests: <<input, api_key>>; each way of leaving
\* a field out or empty once, and a question under every key
ChatRequests ==
    {<<None, new_api_key(1)>>, <<"", new_api_key(1)>>, <<"hi", None>>, <<"hi", "">>}
    \cup {<<"hi", k>> : k \in AllKeys}

\* json.dumps / json.loads of a list of strings, as a token sequence
json_dumps(list) == <<"[">> \o list \o <<"]">>
json_loads(text) == SubSeq(text, 2, Len(text) - 1)

\* a test for a missing value only: `x is None`
falsy_is_none(x) == x = None

\* Python truthiness of an optional string: `not x`
falsy(x) == x = None \/ x = ""

Range(s) == {s[i] : i \in 1..Len(s)}

VARIABLES
    extracted_texts,  \* dict api key -> extracted text (process memory)
    user_api_keys,    \* User.api_keys column, by user id (database)
    session,          \* the session dict carried by each client's cookie
    storage,          \* limiter counters of the current windows (process memory)
    uuid_draws,       \* number of uuid4 values drawn so far
    inflight,         \* per client: a /process_url request between load and commit
    resp,             \* what the last handler step answered (status 0: not yet)
    returned,         \* history: the api keys that 200 responses gave to clients
    hour_hits         \* history: requests per client and endpoint in the current hour

vars == <<extracted_texts, user_api_keys, session, storage, uuid_draws, inflight, resp,
          returned, hour_hits>>

\* extracted_texts = {}
EmptyDict == [k \in {} |-> ""]

\* a session without entries, and `'user_id' in session`
EmptySession == [k \in {} |-> 0]
logged_in(c) == "user_id" \in DOMAIN session[c]

\* what a request did to the collaborators: the outbound calls it made, the
\* system message it sent and what the call came back with
NoCall == [fetches |-> 0, completions |-> 0, prompt |-> None, outcome |-> None]
Fetched(fetch) ==
    [fetches |-> 1, completions |-> 0, prompt |-> None,
     outcome |-> IF fetch.kind = "response" THEN "HTTP " \o ToString(fetch.status)
                 ELSE fetch.kind]
\* a second attempt after a failed call
Completed_retried(system, completion) ==
    [fetches |-> 0, completions |-> IF completion.kind = "response" THEN 1 ELSE 2,
     prompt |-> system, outcome |-> completion.kind]
Completed(system, completion) ==
    [fetches |-> 0, completions |-> 1, prompt |-> system, outcome |-> completion.kind]

\* no /process_url request of the client is waiting for its commit
Idle == [at |-> "idle", user_id |-> 0, api_key |-> None, api_keys |-> << >>,
         url |-> None, call |-> NoCall]

NoResponse == [route |-> None, client |-> None, status |-> 0, body |-> None,
               args |-> << >>, fetches |-> 0, completions |-> 0, prompt |-> None,
               outcome |-> None]

\* the answer to a request: the request (route, client, args), the response
\* (status, body) and the calls made on the way
Response(route, c, args, status, body, call) ==
    [route |-> route, client |-> c, status |-> status, body |-> body,
     args |-> args, fetches |-> call.fetches, completions |-> call.completions,
     prompt |-> call.prompt, outcome |-> call.outcome]

Init ==
    /\ extracted_texts = EmptyDict
    /\ user_api_keys = [u \in UserIds |-> json_dumps(<< >>)]
    /\ session = [c \in Clients |-> EmptySession]
    /\ storage = [k \in Clients \X LimitedEndpoints |-> 0]
    /\ uuid_draws = 0
    /\ inflight = [c \in Clients |-> Idle]
    /\ resp = NoResponse
    /\ returned = {}
    /\ hour_hits = [k \in Clients \X LimitedEndpoints |-> 0]

(* ------------------------------ limiter ------------------------------- *)
\* MemoryStorage.incr: the counter after this request's hit
limiter_hit(c, endpoint) == storage[<<c, endpoint>>] + 1

\* the comparison off by one: the hit that reaches the limit is refused
limiter_allows_below(c, endpoint) == limiter_hit(c, endpoint) < PerMinuteLimit

\* FixedWindowRateLimiter.hit: the hit is counted, then compared
limiter_allows(c, endpoint) == limiter_hit(c, endpoint) <= PerMinuteLimit

\* a limiter keyed by the endpoint alone: every address shares the counter
limiter_limit_shared(c, endpoint) ==
    storage' = [k \in DOMAIN storage |->
                  IF k[2] = endpoint THEN storage[k] + 1 ELSE storage[k]]

\* the decorator of the two endpoints: count the hit, whatever the verdict
limiter_limit(c, endpoint) ==
    storage' = [storage EXCEPT ![<<c, endpoint>>] = limiter_hit(c, endpoint)]

\* the 429 of the limiter; the view never runs
RateLimited(route, c, args) ==
    Response(route, c, args, 429, "Too Many Requests", NoCall)

\* the window of one counter ends: the counter expires
window_rollover(c, endpoint) ==
    /\ storage[<<c, endpoint>>] > 0
    /\ storage' = [storage EXCEPT ![<<c, endpoint>>] = 0]
    /\ UNCHANGED <<extracted_texts, user_api_keys, session, uuid_draws, inflight, resp>>

(* ------------------------------ handlers ------------------------------ *)
\* an exception no handler catches: Flask answers 500
InternalServerError(route, c, args) ==
    Response(route, c, args, 500, "Internal Server Error", NoCall)

\* the query of the user table is taken to succeed; a failing database is
\* followed in /process_url and /user/api_keys
login(c, email, password) ==
    LET user == filter_by_email(email)
        args == <<email, password>>
    IN  /\ IF user.id # 0 /\ check_password_hash(user.password, password)
           THEN /\ session' = [session EXCEPT ![c] = [user_id |-> user.id]]
                /\ resp' = Response("login", c, args, 200, "Logged in successfully", NoCall)
           ELSE /\ session' = session
                /\ resp' = Response("login", c, args, 401, "Invalid credentials", NoCall)
        /\ UNCHANGED <<extracted_texts, user_api_keys, storage, uuid_draws, inflight>>

\* a logout that pops nothing
logout_keeps_session(c) ==
    /\ resp' = Response("logout", c, << >>, 200, "Logged out successfully", NoCall)
    /\ UNCHANGED <<extracted_texts, user_api_keys, session, storage, uuid_draws, inflight>>

\* session.pop('user_id', None)
logout(c) ==
    /\ session' = [session EXCEPT ![c] = EmptySession]
    /\ resp' = Response("logout", c, << >>, 200, "Logged out successfully", NoCall)
    /\ UNCHANGED <<extracted_texts, user_api_keys, storage, uuid_draws, inflight>>

get_user_api_keys(c, db) ==
    /\ IF ~logged_in(c)
       THEN resp' = Response("user/api_keys", c, << >>, 401, "User not logged in", NoCall)
       ELSE IF db # "ok"
       THEN resp' = InternalServerError("user/api_keys", c, << >>)
       ELSE resp' = Response("user/api_keys", c, << >>, 200,
                             json_loads(user_api_keys[session[c].user_id]), NoCall)
    /\ UNCHANGED <<extracted_texts, user_api_keys, session, storage, uuid_draws, inflight>>

\* a rebinding instead of an insertion: d = {key: value}
dict_set_only(d, key, value) == [k \in {key} |-> value]

\* dict assignment d[key] = value
dict_set(d, key, value) ==
    [k \in DOMAIN d \cup {key} |-> IF k = key THEN value ELSE d[k]]

\* a lookup that forgets the default: d.get(key, "")
dict_get_blank(d, key, default) == IF key \in DOMAIN d THEN d[key] ELSE ""

\* dict.get(key, default)
dict_get(d, key, default) == IF key \in DOMAIN d THEN d[key] ELSE default

\* a fetch that leaves a key behind although it raised
process_url_failed_orphan(c, args, fetch) ==
    /\ uuid_draws < MaxKeys
    /\ uuid_draws' = uuid_draws + 1
    /\ extracted_texts' = dict_set(extracted_texts, new_api_key(uuid_draws + 1), "")
    /\ resp' = Response("process_url", c, args, 500, fetch.kind, Fetched(fetch))
    /\ UNCHANGED inflight

\* requests.get raised inside the try: the except branch (lines 128-130)
process_url_failed(c, args, fetch) ==
    /\ resp' = Response("process_url", c, args, 500, fetch.kind, Fetched(fetch))
    /\ UNCHANGED <<extracted_texts, uuid_draws, inflight>>

\* a view that appends the key to the loaded list but stores no context
process_url_view_unstored(c, url, fetch, db) ==
    LET args == <<url>>
        api_key == new_api_key(uuid_draws + 1)
        api_keys == Append(json_loads(user_api_keys[session[c].user_id]), api_key)
    IN  IF ~logged_in(c)
        THEN /\ resp' = Response("process_url", c, args, 401, "User not logged in", NoCall)
             /\ UNCHANGED <<extracted_texts, uuid_draws, inflight>>
        ELSE IF falsy(url)
        THEN /\ resp' = Response("process_url", c, args, 400, "No URL provided", NoCall)
             /\ UNCHANGED <<extracted_texts, uuid_draws, inflight>>
        ELSE IF fetch.kind # "response"
        THEN process_url_failed(c, args, fetch)
        ELSE /\ uuid_draws < MaxKeys
             /\ uuid_draws' = uuid_draws + 1
             /\ extracted_texts' = extracted_texts
             /\ IF db = "ok"
                THEN /\ inflight' = [inflight EXCEPT ![c] =
                            [at |-> "commit", user_id |-> session[c].user_id,
                             api_key |-> api_key,
                             api_keys |-> json_dumps(api_keys), url |-> url,
                             call |-> Fetched(fetch)]]
                     /\ resp' = Response("process_url", c, args, 0, None, Fetched(fetch))
                ELSE /\ resp' = Response("process_url", c, args, 500, db, Fetched(fetch))
                     /\ inflight' = inflight

\* the body of process_url up to the point where the user's row is loaded
\* and the new key appended to the loaded list (lines 101-116); the commit
\* is a later step
process_url_view(c, url, fetch, db) ==
    LET args == <<url>>
        api_key == new_api_key(uuid_draws + 1)
        extracted_text == extract_text(fetch)
        api_keys == Append(json_loads(user_api_keys[session[c].user_id]), api_key)
    IN  IF ~logged_in(c)
        THEN /\ resp' = Response("process_url", c, args, 401, "User not logged in", NoCall)
             /\ UNCHANGED <<extracted_texts, uuid_draws, inflight>>
        ELSE IF falsy(url)
        THEN /\ resp' = Response("process_url", c, args, 400, "No URL provided", NoCall)
             /\ UNCHANGED <<extracted_texts, uuid_draws, inflight>>
        ELSE IF fetch.kind # "response"
        THEN process_url_failed(c, args, fetch)
        ELSE /\ uuid_draws < MaxKeys
             /\ uuid_draws' = uuid_draws + 1
             /\ extracted_texts' = dict_set(extracted_texts, api_key, extracted_text)
             /\ IF db = "ok"
                THEN /\ inflight' = [inflight EXCEPT ![c] =
                            [at |-> "commit", user_id |-> session[c].user_id,
                             api_key |-> api_key,
                             api_keys |-> json_dumps(api_keys), url |-> url,
                             call |-> Fetched(fetch)]]
                     /\ resp' = Response("process_url", c, args, 0, None, Fetched(fetch))
                ELSE /\ resp' = Response("process_url", c, args, 500, db, Fetched(fetch))
                     /\ inflight' = inflight

\* the route without its limit: the view runs whatever the limiter counted
process_url_undecorated(c, url, fetch, db) ==
    /\ inflight[c].at = "idle"
    /\ limiter_limit(c, "process_url")
    /\ process_url_view(c, url, fetch, db)
    /\ UNCHANGED <<user_api_keys, session>>

\* @limiter.limit("5 per minute") around the view
process_url(c, url, fetch, db) ==
    /\ inflight[c].at = "idle"
    /\ limiter_limit(c, "process_url")
    /\ IF ~limiter_allows(c, "process_url")
       THEN /\ resp' = RateLimited("process_url", c, <<url>>)
            /\ UNCHANGED <<extracted_texts, uuid_draws, inflight>>
       ELSE process_url_view(c, url, fetch, db)
    /\ UNCHANGED <<user_api_keys, session>>

\* a commit that appends the key to the list as it is now in the database
process_url_commit_merging(c, db) ==
    LET req == inflight[c]
        args == <<req.url>>
        merged == Append(json_loads(user_api_keys[req.user_id]), req.api_key)
    IN  /\ req.at = "commit"
        /\ inflight' = [inflight EXCEPT ![c] = Idle]
        /\ IF db = "ok"
           THEN /\ user_api_keys' = [user_api_keys EXCEPT ![req.user_id] = json_dumps(merged)]
                /\ resp' = Response("process_url", c, args, 200, req.api_key, req.call)
           ELSE /\ user_api_keys' = user_api_keys
                /\ resp' = Response("process_url", c, args, 500, db, req.call)
        /\ UNCHANGED <<extracted_texts, session, storage, uuid_draws>>

\* db.session.commit() and the response (lines 117-130)
process_url_commit(c, db) ==
    LET req == inflight[c]
        args == <<req.url>>
    IN  /\ req.at = "commit"
        /\ inflight' = [inflight EXCEPT ![c] = Idle]
        /\ IF db = "ok"
           THEN /\ user_api_keys' = [user_api_keys EXCEPT ![req.user_id] = req.api_keys]
                /\ resp' = Response("process_url", c, args, 200, req.api_key, req.call)
           ELSE /\ user_api_keys' = user_api_keys
                /\ resp' = Response("process_url", c, args, 500, db, req.call)
        /\ UNCHANGED <<extracted_texts, session, storage, uuid_draws>>

\* a handler without the RequestException clause: every failure is a 500
chat_error_status_500(kind) == 500

\* the three except clauses of chat (lines 271-279)
chat_error_status(kind) ==
    IF kind = "RequestException" THEN 503
    ELSE IF kind = "APIError" THEN 500
    ELSE 500

\* the body of chat (lines 241-279)
chat_view(c, user_input, api_key, completion) ==
    LET args == <<user_input, api_key>>
        context == dict_get(extracted_texts, api_key, Sentinel)
        system == SystemPrefix \o context
    IN  IF falsy(user_input) \/ falsy(api_key)
        THEN resp' = Response("chat", c, args, 400, "Input and API key are required", NoCall)
        ELSE IF completion.kind = "response"
        THEN resp' = Response("chat", c, args, 200, completion.content, Completed(system, completion))
        ELSE resp' = Response("chat", c, args, chat_error_status(completion.kind),
                              completion.kind, Completed(system, completion))

\* a limit applied after the validation: a request answered 400 is not counted
chat_validates_first(c, user_input, api_key, completion) ==
    /\ IF falsy(user_input) \/ falsy(api_key)
       THEN /\ storage' = storage
            /\ chat_view(c, user_input, api_key, completion)
       ELSE /\ limiter_limit(c, "chat")
            /\ IF ~limiter_allows(c, "chat")
               THEN resp' = RateLimited("chat", c, <<user_input, api_key>>)
               ELSE chat_view(c, user_input, api_key, completion)
    /\ UNCHANGED <<extracted_texts, user_api_keys, session, uuid_draws, inflight>>

\* @limiter.limit("5 per minute") around the view
chat(c, user_input, api_key, completion) ==
    /\ limiter_limit(c, "chat")
    /\ IF ~limiter_allows(c, "chat")
       THEN resp' = RateLimited("chat", c, <<user_input, api_key>>)
       ELSE chat_view(c, user_input, api_key, completion)
    /\ UNCHANGED <<extracted_texts, user_api_keys, session, uuid_draws, inflight>>

\* the process is stopped and started again: memory is lost, the database
\* and the clients' cookies are not; requests in flight die unanswered
restart ==
    /\ extracted_texts' = EmptyDict
    /\ storage' = [k \in Clients \X LimitedEndpoints |-> 0]
    /\ inflight' = [c \in Clients |-> Idle]
    /\ resp' = NoResponse
    /\ UNCHANGED <<user_api_keys, session, uuid_draws>>

(* --------------------------- history variables ------------------------ *)
\* The handlers do not mention the history variables: the program has no
\* such state.  Every step of a specification records what it showed.

\* the key of a /process_url answered 200 has been given to a client
keys_returned ==
    returned' = IF resp'.route = "process_url" /\ resp'.status = 200
                THEN returned \cup {resp'.body} ELSE returned

\* a step of a specification that does not follow the hours
observed == keys_returned /\ UNCHANGED hour_hits

\* a step that is a request of c to endpoint, in a specification that
\* follows the hours
observed_request(c, endpoint) ==
    /\ keys_returned
    /\ hour_hits' = [hour_hits EXCEPT ![<<c, endpoint>>] = @ + 1]

\* the browser whose requests the specifications follow
Browser == "10.0.0.1"

\* the counter of (c, endpoint) has room for one more hit within the bound
below(c, endpoint, bound) == storage[<<c, endpoint>>] < bound

\* the current window of (c, endpoint) has not been hit yet
quiet(c, endpoint) == storage[<<c, endpoint>>] = 0

Next ==
    \/ \E email \in Emails, password \in Passwords :
          login(Browser, email, password) /\ observed
    \/ logout(Browser) /\ observed
    \/ \E url \in {u \in UrlInputs : falsy(u)} :
          quiet(Browser, "process_url") /\ process_url(Browser, url, Page, "ok") /\ observed
    \/ \E url \in {u \in UrlInputs : ~falsy(u)}, fetch \in FetchOutcomes, db \in DbOutcomes :
          quiet(Browser, "process_url") /\ process_url(Browser, url, fetch, db) /\ observed
    \/ \E db \in DbOutcomes : process_url_commit(Browser, db) /\ observed
    \/ \E request \in {r \in ChatRequests : falsy(r[1]) \/ falsy(r[2])} :
          /\ quiet(Browser, "chat")
          /\ chat(Browser, request[1], request[2], Reply) /\ observed
    \/ \E request \in {r \in ChatRequests : ~falsy(r[1]) /\ ~falsy(r[2])},
          completion \in CompletionOutcomes :
          /\ quiet(Browser, "chat")
          /\ chat(Browser, request[1], request[2], completion) /\ observed
    \/ \E db \in DbOutcomes : get_user_api_keys(Browser, db) /\ observed
    \/ \E endpoint \in LimitedEndpoints : window_rollover(Browser, endpoint) /\ observed
    \/ restart /\ observed

Spec == Init /\ [][Next]_vars

\* inputs of SpecLimiter: one account, a page or a dead host, a working database
LimiterFetchOutcomes == {f \in FetchOutcomes : f.status # 404}
LimiterCompletionOutcomes == {o \in CompletionOutcomes : o.kind \in {"response", "RequestException"}}

NextLimiter ==
    \/ \E password \in Passwords : login(Browser, "a@example.com", password) /\ observed
    \/ logout(Browser) /\ observed
    \/ \E url \in UrlInputs, fetch \in LimiterFetchOutcomes :
          /\ below(Browser, "process_url", MaxHits)
          /\ process_url(Browser, url, fetch, "ok") /\ observed
    \/ process_url_commit(Browser, "ok") /\ observed
    \/ \E request \in ChatRequests, completion \in LimiterCompletionOutcomes :
          /\ below(Browser, "chat", MaxHits)
          /\ chat(Browser, request[1], request[2], completion) /\ observed
    \/ get_user_api_keys(Browser, "ok") /\ observed
    \/ \E endpoint \in LimitedEndpoints : window_rollover(Browser, endpoint) /\ observed
    \/ restart /\ observed

SpecLimiter == Init /\ [][NextLimiter]_vars

\* an hour has passed since the first request counted in hour_hits; the
\* minute window of the counter, being shorter, has ended as well
hour_rollover(c, endpoint) ==
    /\ hour_hits[<<c, endpoint>>] > 0
    /\ hour_hits' = [hour_hits EXCEPT ![<<c, endpoint>>] = 0]
    /\ storage' = [storage EXCEPT ![<<c, endpoint>>] = 0]
    /\ UNCHANGED <<extracted_texts, user_api_keys, session, uuid_draws, inflight, resp,
                   returned>>

\* the hour of (c, endpoint) has room for one more request within the bound
hour_below(c, endpoint, bound) == hour_hits[<<c, endpoint>>] < bound

\* SpecDefaults: a browser that never sends an endpoint more than
\* PerMinuteLimit requests in a minute, followed over the hours
NextDefaults ==
    \/ /\ below(Browser, "process_url", PerMinuteLimit)
       /\ hour_below(Browser, "process_url", MaxHourHits)
       /\ process_url(Browser, "http://example.com/a",
                      [kind |-> "response", status |-> 200,
                       paragraphs |-> <<"Hello.", "World.">>], "ok")
       /\ observed_request(Browser, "process_url")
    \/ /\ below(Browser, "chat", PerMinuteLimit)
       /\ hour_below(Browser, "chat", MaxHourHits)
       /\ chat(Browser, "hi", new_api_key(1), [kind |-> "response", content |-> "Hi there"])
       /\ observed_request(Browser, "chat")
    \/ \E endpoint \in LimitedEndpoints : window_rollover(Browser, endpoint) /\ observed
    \/ \E endpoint \in LimitedEndpoints : hour_rollover(Browser, endpoint)

SpecDefaults == Init /\ [][NextDefaults]_vars

\* SpecRace: two browsers of one user whose /process_url requests
\* interleave between load and commit
NextRace ==
    \/ \E c \in Clients : login(c, "a@example.com", "pw-a") /\ observed
    \/ \E c \in Clients :
          /\ quiet(c, "process_url")
          /\ process_url(c, "http://example.com/a", Page, "ok") /\ observed
    \/ \E c \in Clients, db \in DbOutcomes : process_url_commit(c, db) /\ observed
    \/ \E k \in AllKeys :
          /\ below(Browser, "chat", MaxHits)
          /\ chat(Browser, "hi", k, Reply) /\ observed
    \/ \E c \in Clients : get_user_api_keys(c, "ok") /\ observed
    \/ \E c \in Clients, endpoint \in LimitedEndpoints :
          window_rollover(c, endpoint) /\ observed
    \/ restart /\ observed

SpecRace == Init /\ [][NextRace]_vars

\* SpecClients: two browsers that send both endpoints up to MaxHits
\* requests per window; one of them may log in
NextClients ==
    \/ login(Browser, "a@example.com", "pw-a") /\ observed
    \/ process_url_commit(Browser, "ok") /\ observed
    \/ \E c \in Clients, url \in {None, "http://example.com/a"} :
          /\ below(c, "process_url", MaxHits)
          /\ process_url(c, url, Page, "ok") /\ observed
    \/ \E c \in Clients, user_input \in {"", "hi"} :
          /\ below(c, "chat", MaxHits)
          /\ chat(c, user_input, new_api_key(1), Reply) /\ observed
    \/ \E c \in Clients, endpoint \in LimitedEndpoints :
          window_rollover(c, endpoint) /\ observed

SpecClients == Init /\ [][NextClients]_vars

TypeOK == uuid_draws \in 0..MaxKeys

(* ------------------------------- claims ------------------------------- *)
\* this step is a request of client c to the limited endpoint: its hit is counted
Hit(c, endpoint) == storage'[<<c, endpoint>>] = storage[<<c, endpoint>>] + 1

\* C11 as stated: the default limits guard the two decorated endpoints too:
\* a request to /chat or /process_url that is the 51st (or a later one) of
\* its client to that endpoint within the hour is answered 429, although
\* the client never sent more than 5 in a minute.
C11_DefaultsGuardDecorated ==
    [][\A c \in Clients, endpoint \in LimitedEndpoints :
          (Hit(c, endpoint) /\ hour_hits'[<<c, endpoint>>] > 50) => resp'.status = 429
      ]_vars

\* C1: for one client and one limited endpoint, a request that is the 5th
\* (or an earlier) hit of the current window is not answered 429, the 6th
\* (or a later) hit of that window is answered 429, and a counter only
\* moves by one hit or back to zero when its window rolls over, after which
\* requests are admitted again.
C1_FifthAdmittedSixthRejected ==
    [][\A c \in Clients, endpoint \in LimitedEndpoints :
          /\ Hit(c, endpoint) =>
                /\ resp'.route = endpoint /\ resp'.client = c
                /\ storage'[<<c, endpoint>>] <= 5 => resp'.status # 429
                /\ storage'[<<c, endpoint>>] >= 6 => resp'.status = 429
          /\ storage'[<<c, endpoint>>] \in
                {storage[<<c, endpoint>>], storage[<<c, endpoint>>] + 1, 0}
          /\ (storage[<<c, endpoint>>] = 0 /\ Hit(c, endpoint)) => resp'.status # 429
      ]_vars

\* the sixth /chat request of a window has just been refused
C1_Witness ==
    /\ resp.route = "chat" /\ resp.status = 429
    /\ storage[<<resp.client, "chat">>] = 6

\* C2: a request over the limit has none of the guarded effects: such a
\* /process_url fetches nothing, draws no key, leaves the context store and
\* every key list as they were and starts no commit; such a /chat makes no
\* completion call.
C2_RejectedHasNoEffect ==
    [][\A c \in Clients :
          /\ (Hit(c, "process_url") /\ storage'[<<c, "process_url">>] > 5) =>
                /\ resp'.route = "process_url" /\ resp'.fetches = 0
                /\ UNCHANGED <<extracted_texts, uuid_draws, user_api_keys, inflight>>
          /\ (Hit(c, "chat") /\ storage'[<<c, "chat">>] > 5) =>
                /\ resp'.route = "chat" /\ resp'.completions = 0
      ]_vars

\* a logged-in client has just been refused on /process_url
C2_Witness ==
    /\ resp.route = "process_url" /\ resp.status = 429
    /\ logged_in(resp.client)
    /\ storage[<<resp.client, "process_url">>] = 6

\* C3 as stated: every /chat request whose input or api_key is empty or
\* missing is answered 400 and makes no completion call.
C3_Original ==
    [][\A c \in Clients :
          (/\ Hit(c, "chat")
           /\ (resp'.args[1] \in {None, ""} \/ resp'.args[2] \in {None, ""}))
          => (resp'.status = 400 /\ resp'.completions = 0)
      ]_vars

\* C3 (amended): every /chat request whose input or api_key is empty or
\* missing makes no completion call, and is answered 400 whenever the
\* limiter admits it (it is answered 429 when it is over the limit).
C3_BadRequestWhenAdmitted ==
    [][\A c \in Clients :
          (/\ Hit(c, "chat")
           /\ (resp'.args[1] \in {None, ""} \/ resp'.args[2] \in {None, ""}))
          => /\ resp'.route = "chat" /\ resp'.completions = 0
             /\ storage'[<<c, "chat">>] <= 5 => resp'.status = 400
             /\ storage'[<<c, "chat">>] > 5 => resp'.status = 429
      ]_vars

\* a /chat request with an input but an empty api_key has just been answered 400
C3_Witness ==
    /\ resp.route = "chat" /\ resp.status = 400 /\ resp.completions = 0
    /\ resp.args = <<"hi", "">>

\* C4 as stated: every /chat request with a non-empty input and a non-empty
\* api_key that the store does not hold puts the sentinel in the system
\* message and calls the completion capability exactly once, and the text
\* the capability returns is the body of a 200.
C4_Original ==
    [][\A c \in Clients :
          (/\ Hit(c, "chat")
           /\ resp'.args[1] \notin {None, ""} /\ resp'.args[2] \notin {None, ""}
           /\ resp'.args[2] \notin DOMAIN extracted_texts)
          => /\ resp'.prompt = SystemPrefix \o Sentinel
             /\ resp'.completions = 1
             /\ resp'.outcome = "response" =>
                   (resp'.status = 200 /\ resp'.body = "Hi there")
      ]_vars

\* C4 (amended): the same for every such request that the limiter admits.
C4_SentinelWhenAdmitted ==
    [][\A c \in Clients :
          (/\ Hit(c, "chat")
           /\ storage'[<<c, "chat">>] <= 5
           /\ resp'.args[1] \notin {None, ""} /\ resp'.args[2] \notin {None, ""}
           /\ resp'.args[2] \notin DOMAIN extracted_texts)
          => /\ resp'.route = "chat"
             /\ resp'.prompt = SystemPrefix \o Sentinel
             /\ resp'.completions = 1
             /\ resp'.status # 400
             /\ resp'.outcome = "response" =>
                   (resp'.status = 200 /\ resp'.body = "Hi there")
      ]_vars

\* a key that a user's list still holds but the store lost at a restart has
\* just been answered 200 through the sentinel
C4_Witness ==
    /\ resp.route = "chat" /\ resp.status = 200 /\ resp.completions = 1
    /\ resp.prompt = SystemPrefix \o Sentinel
    /\ resp.body = "Hi there"
    /\ resp.args[2] \notin DOMAIN extracted_texts
    /\ \E u \in UserIds : resp.args[2] \in Range(json_loads(user_api_keys[u]))

\* the text the extractor makes of the page behind a fetch outcome
PageText(outcome) == IF outcome = "HTTP 200" THEN "Hello. World." ELSE "Not Found"

\* this step is the commit of client c's /process_url request, answered 200
Committed(c) ==
    /\ inflight[c].at = "commit" /\ inflight'[c].at = "idle"
    /\ resp'.route = "process_url" /\ resp'.status = 200

\* C5: a /process_url answered 200 returns a key under which the store holds
\* the text extracted from the fetched page; no step other than a restart
\* removes an entry of the store or changes its text; and every /chat that
\* reaches the completion call with a key of the store sends the system
\* message built from that key's text.
C5_StoredContextIsKept ==
    [][/\ \A c \in Clients :
            /\ Committed(c) =>
                  /\ resp'.body \in DOMAIN extracted_texts'
                  /\ extracted_texts'[resp'.body] = PageText(resp'.outcome)
            /\ (/\ Hit(c, "chat")
                /\ resp'.status \notin {400, 429}
                /\ resp'.args[2] \in DOMAIN extracted_texts) =>
                  /\ resp'.completions = 1
                  /\ resp'.prompt = SystemPrefix \o extracted_texts[resp'.args[2]]
       /\ \/ restart
          \/ \A k \in DOMAIN extracted_texts :
                k \in DOMAIN extracted_texts' /\ extracted_texts'[k] = extracted_texts[k]
      ]_vars

\* a /chat has just been answered from the text stored under its key while
\* the store holds a second key with another text
C5_Witness ==
    /\ resp.route = "chat" /\ resp.status = 200
    /\ resp.args[2] \in DOMAIN extracted_texts
    /\ extracted_texts[resp.args[2]] = "Hello. World."
    /\ resp.prompt = SystemPrefix \o "Hello. World."
    /\ \E k \in DOMAIN extracted_texts : extracted_texts[k] = "Not Found"

\* C6: a /process_url whose fetch ends in a transport failure is answered
\* 500 after that one fetch, and draws no key, adds no store entry, changes
\* no key list and starts no commit.
C6_TransportFailureMutatesNothing ==
    [][\A c \in Clients :
          (Hit(c, "process_url") /\ resp'.outcome = "ConnectionError") =>
             /\ resp'.route = "process_url" /\ resp'.status = 500
             /\ resp'.fetches = 1
             /\ UNCHANGED <<extracted_texts, uuid_draws, user_api_keys, inflight>>
      ]_vars

\* a logged-in client's /process_url has just failed on a dead host while
\* the store and every key list are still empty
C6_Witness ==
    /\ resp.route = "process_url" /\ resp.status = 500
    /\ resp.outcome = "ConnectionError" /\ resp.fetches = 1
    /\ logged_in(resp.client)
    /\ uuid_draws = 0 /\ DOMAIN extracted_texts = {}

\* C7 as stated: a /process_url whose fetch comes back with a non-2xx status
\* is answered with an error, stores no context and draws no key.
C7_NonSuccessStatusFails ==
    [][\A c \in Clients :
          (Hit(c, "process_url") /\ resp'.outcome = "HTTP 404") =>
             /\ resp'.status >= 400
             /\ UNCHANGED <<extracted_texts, uuid_draws>>
      ]_vars

\* C8: a /chat whose completion call fails is answered once: 503 for a
\* transport failure, 500 for an error of the capability, 500 for any other
\* failure; the store, the key lists, the sessions and the requests in
\* flight are as before, so later requests are served.
C8_ChatFailureMapping ==
    [][\A c \in Clients :
          (Hit(c, "chat") /\ resp'.completions = 1) =>
             /\ resp'.route = "chat" /\ resp'.client = c
             /\ resp'.outcome = "RequestException" => resp'.status = 503
             /\ resp'.outcome = "APIError" => resp'.status = 500
             /\ resp'.outcome = "Exception" => resp'.status = 500
             /\ resp'.outcome = "response" => resp'.status = 200
             /\ UNCHANGED <<extracted_texts, user_api_keys, session, uuid_draws, inflight>>
      ]_vars

\* a /chat has just been answered 503 after a transport failure
C8_Witness ==
    /\ resp.route = "chat" /\ resp.status = 503
    /\ resp.outcome = "RequestException" /\ resp.completions = 1

\* the keys of user u's list
KeysOf(u) == Range(json_loads(user_api_keys[u]))

\* the user id of client c's session changes in this step
SessionChanged(c) ==
    \/ logged_in(c) # logged_in(c)'
    \/ /\ logged_in(c) /\ logged_in(c)'
       /\ session[c].user_id # session'[c].user_id

\* the parts of C9 that do not depend on the limiter: the session holds a
\* user id from a login answered 200 until the next logout; an extraction
\* or a key list is only given to a session that holds one; without one
\* /user/api_keys answers 401 and /process_url fetches nothing, draws no
\* key and changes no store entry and no key list.
SessionGate(c) ==
    /\ SessionChanged(c) =>
          /\ resp'.client = c
          /\ \/ resp'.route = "login" /\ resp'.status = 200 /\ logged_in(c)'
             \/ resp'.route = "logout" /\ ~logged_in(c)'
    /\ (resp'.route = "logout" /\ resp'.client = c) => ~logged_in(c)'
    /\ (Hit(c, "process_url") /\ (resp'.fetches > 0 \/ uuid_draws' # uuid_draws))
          => logged_in(c)
    /\ (\E db \in DbOutcomes : get_user_api_keys(c, db)) =>
          /\ resp'.status = 200 => logged_in(c)
          /\ ~logged_in(c) => resp'.status = 401
    /\ (Hit(c, "process_url") /\ ~logged_in(c)) =>
          /\ resp'.fetches = 0
          /\ UNCHANGED <<extracted_texts, uuid_draws, user_api_keys, inflight>>

C10_KeysAreFresh ==
    [][/\ uuid_draws' # uuid_draws =>
            \E k \in DOMAIN extracted_texts' :
               /\ k \notin DOMAIN extracted_texts
               /\ DOMAIN extracted_texts' = DOMAIN extracted_texts \cup {k}
               /\ \A u \in UserIds : k \notin KeysOf(u)
               /\ \A c \in Clients : inflight[c].api_key # k
       /\ \A u \in UserIds :
            LET list == json_loads(user_api_keys'[u])
            IN  /\ \A i, j \in 1..Len(list) : list[i] = list[j] => i = j
                /\ \A v \in UserIds \ {u} :
                      Range(list) \cap Range(json_loads(user_api_keys'[v])) = {}
      ]_vars

\* two keys have been issued, one to each user, and the store holds both
C10_Witness ==
    /\ uuid_draws = 2
    /\ Cardinality(DOMAIN extracted_texts) = 2
    /\ \A u \in UserIds : Cardinality(KeysOf(u)) = 1

\* the keys of all users' lists
ListedKeys == UNION {KeysOf(u) : u \in UserIds}

\* the parts of C12 that do not depend on the limiter: a key that a step
\* appends to a key list has an entry in the context store after the step;
\* a step that loses an entry of the store (a restart) empties the store
\* and leaves every key list as it was.
StoredBeforeListed ==
    /\ \A u \in UserIds : (KeysOf(u)' \ KeysOf(u)) \subseteq DOMAIN extracted_texts'
    /\ (\E k \in DOMAIN extracted_texts : k \notin DOMAIN extracted_texts') =>
          /\ extracted_texts' = EmptyDict
          /\ user_api_keys' = user_api_keys

\* C12 as stated: the above, also when /process_url requests interleave,
\* and every /chat with a key that a list holds and the store has lost is
\* answered through the sentinel: one completion call, no error status.
C12_Original ==
    [][/\ StoredBeforeListed
       /\ \A c \in Clients :
            (/\ Hit(c, "chat")
             /\ resp'.args[2] \in ListedKeys
             /\ resp'.args[2] \notin DOMAIN extracted_texts)
            => /\ resp'.prompt = SystemPrefix \o Sentinel
               /\ resp'.completions = 1
               /\ resp'.status = 200
      ]_vars

\* C12 (amended): the above, and every /chat that the limiter admits, with
\* a key that a list holds and the store has lost, is answered through the
\* sentinel: one completion call, and the reply of the capability with 200.
C12_StoredBeforeListed ==
    [][/\ StoredBeforeListed
       /\ \A c \in Clients :
            (/\ Hit(c, "chat")
             /\ storage'[<<c, "chat">>] <= 5
             /\ resp'.args[1] \notin {None, ""}
             /\ resp'.args[2] \in ListedKeys
             /\ resp'.args[2] \notin DOMAIN extracted_texts)
            => /\ resp'.route = "chat"
               /\ resp'.prompt = SystemPrefix \o Sentinel
               /\ resp'.completions = 1
               /\ resp'.outcome = "response" => resp'.status = 200
      ]_vars

\* two requests of one user are interleaved: the first has committed and
\* its key is in the list and in the store; the second loaded the list
\* before that and waits for its commit with its context already stored
C12_Witness ==
    \E c \in Clients, u \in UserIds :
       /\ inflight[c].at = "commit" /\ inflight[c].user_id = u
       /\ inflight[c].api_key \in DOMAIN extracted_texts
       /\ inflight[c].api_keys = json_dumps(<<inflight[c].api_key>>)
       /\ KeysOf(u) # {}
       /\ KeysOf(u) \subseteq DOMAIN extracted_texts

\* C13: a /process_url that commits writes back the list it loaded with its
\* own key appended, whatever the list holds by then: it is answered 200
\* with a key no client was given before, and every key that another
\* request committed to that list after the load is no longer in the list.
C13_LastWriterWins ==
    [][\A c \in Clients, u \in UserIds :
          (Committed(c) /\ inflight[c].user_id = u) =>
             LET req == inflight[c]
                 loaded == Range(json_loads(req.api_keys))
             IN  /\ resp'.body = req.api_key
                 /\ resp'.body \notin returned
                 /\ KeysOf(u)' = loaded
                 /\ resp'.body \in KeysOf(u)'
                 /\ \A k \in KeysOf(u) \ loaded : k \notin ListedKeys'
      ]_vars

\* two keys were given to clients with 200, and /user/api_keys has just
\* answered with the list that holds the later writer's key only: the other
\* key is in no list
C13_Witness ==
    /\ resp.route = "user/api_keys" /\ resp.status = 200
    /\ Cardinality(returned) = 2
    /\ \E k \in returned :
          /\ k \notin ListedKeys
          /\ Range(resp.body) = returned \ {k}
          /\ Len(resp.body) = 1

\* C14: a request makes at most one outbound call: a /process_url that the
\* limiter admits makes at most one fetch, a /chat at most one completion
\* call and no fetch; when the call fails it was made exactly once and the
\* request is over with one error response (no commit waits); fetches and
\* completion calls are only made by request steps.
C14_NoRetry ==
    [][/\ \A c \in Clients :
            /\ Hit(c, "process_url") =>
                  /\ resp'.route = "process_url" /\ resp'.client = c
                  /\ resp'.fetches <= 1 /\ resp'.completions = 0
                  /\ resp'.outcome = "ConnectionError" =>
                        /\ resp'.fetches = 1 /\ resp'.status = 500
                        /\ inflight'[c].at = "idle"
            /\ Hit(c, "chat") =>
                  /\ resp'.route = "chat" /\ resp'.client = c
                  /\ resp'.completions <= 1 /\ resp'.fetches = 0
                  /\ resp'.outcome \in {"RequestException", "APIError", "Exception"} =>
                        /\ resp'.completions = 1 /\ resp'.status \in {500, 503}
            /\ (inflight[c].at = "commit" /\ inflight'[c].at = "idle" /\ resp'.status # 0) =>
                  resp'.fetches = 1
       /\ (resp' # resp /\ resp'.completions > 0) => \E c \in Clients : Hit(c, "chat")
       /\ (resp' # resp /\ resp'.fetches > 0) =>
            \E c \in Clients : Hit(c, "process_url") \/ inflight[c].at = "commit"
      ]_vars

\* the fifth /chat of a window has just failed with a transport error after
\* its one completion call
C14_Witness ==
    /\ resp.route = "chat" /\ resp.status = 503 /\ resp.completions = 1
    /\ resp.outcome = "RequestException"
    /\ storage[<<resp.client, "chat">>] = 5

\* C15: each pair of client address and endpoint has its own counter: a
\* request moves the counter of its own pair only, and whether it is
\* answered 429 depends on that counter only (refused exactly when the
\* pair had 5 or more hits in the window), whatever the counters of the
\* client's other endpoint and of the other addresses hold.
C15_QuotaPerClientAndEndpoint ==
    [][\A c \in Clients, endpoint \in LimitedEndpoints :
          Hit(c, endpoint) =>
             /\ resp'.route = endpoint /\ resp'.client = c
             /\ \A k \in DOMAIN storage : k # <<c, endpoint>> => storage'[k] = storage[k]
             /\ resp'.status = 429 <=> storage[<<c, endpoint>>] >= 5
      ]_vars

\* a client's /chat has just been admitted as the first of its window while
\* another address is over the limit on /chat and the client itself is over
\* the limit on /process_url
C15_Witness ==
    \E other \in Clients \ {resp.client} :
       /\ resp.route = "chat" /\ resp.status = 200
       /\ storage[<<resp.client, "chat">>] = 1
       /\ storage[<<other, "chat">>] = 6
       /\ storage[<<resp.client, "process_url">>] = 6

\* C16 as stated: a /process_url request that ends with 401, 400, 429 or
\* 500 leaves the context store and every key list as they were before the
\* request: a request answered with an error in one step changes neither,
\* and a request whose commit fails leaves the lists alone and no entry of
\* its own in the store.
C16_ErrorLeavesNoTrace ==
    [][\A c \in Clients :
          /\ (Hit(c, "process_url") /\ resp'.status \in {400, 401, 429, 500}) =>
                UNCHANGED <<extracted_texts, user_api_keys>>
          /\ (inflight[c].at = "commit" /\ inflight'[c].at = "idle" /\ resp'.status = 500) =>
                /\ user_api_keys' = user_api_keys
                /\ inflight[c].api_key \notin DOMAIN extracted_texts'
      ]_vars

\* C17: the limiter counts a request before the view looks at it: every
\* /process_url answered 401 or 400 and every /chat answered 400 is a hit
\* on the counter of its client and endpoint, and a request that finds five
\* hits in the window, whatever they were answered and however well-formed
\* and authenticated it is itself, is answered 429 with no fetch, no
\* completion call, no key drawn and no change of the store and the lists.
C17_RefusedByViewStillCounts ==
    [][\A c \in Clients, endpoint \in LimitedEndpoints :
          /\ (/\ resp' # resp
              /\ resp'.client = c /\ resp'.route = endpoint
              /\ resp'.status \in {400, 401}) => Hit(c, endpoint)
          /\ (Hit(c, endpoint) /\ storage[<<c, endpoint>>] >= 5) =>
                /\ resp'.status = 429
                /\ resp'.fetches = 0 /\ resp'.completions = 0
                /\ UNCHANGED <<extracted_texts, uuid_draws, user_api_keys, inflight>>
      ]_vars

\* the sixth /process_url of a window, sent with a url by a client that has
\* logged in, has just been answered 429; no key was ever drawn, so the five
\* hits before it were sent without a session or without a url and answered
\* 401 or 400
C17_Witness ==
    /\ resp.route = "process_url" /\ resp.status = 429
    /\ resp.args = <<"http://example.com/a">>
    /\ logged_in(resp.client)
    /\ storage[<<resp.client, "process_url">>] = 6
    /\ uuid_draws = 0 /\ resp.fetches = 0

====
